---- MODULE Spec2Model ----
(***************************************************************************)
(* Space Motors: the listing catalogue of src/server.js (the variant that  *)
(* creates the schema, lines 177-375), as a state machine.                 *)
(*                                                                         *)
(* The state is the SQLite database (tables cars and images with their     *)
(* AUTOINCREMENT counters), the upload directory, the wall clock read by   *)
(* Date.now(), and the admin requests in flight.  An async handler         *)
(* (POST /admin/nuevo, POST /admin/editar/:id) runs without interruption   *)
(* up to each `await file.mv(...)`; any other request may run in between.  *)
(* The synchronous handlers run in one step.                               *)
(*                                                                         *)
(* Texts (titles, search terms, file names, slugs) are sequences of        *)
(* one-character strings, so that slugify, the file-name filter and the    *)
(* SQL LIKE operator are computed character by character.                  *)
(***************************************************************************)
EXTENDS Integers, Sequences, FiniteSets

VARIABLES
  cars,       \* rows of table cars
  images,     \* rows of table images
  seqCars,    \* sqlite_sequence of cars   (AUTOINCREMENT: largest id ever used)
  seqImages,  \* sqlite_sequence of images
  uploads,    \* names of the files stored under UPLOADS_DIR
  now,        \* Date.now()
  reqs,       \* the async admin handlers, one record per connection
  last,       \* HTTP status of the last answer of an admin POST route (0: none yet)
  view,       \* the last inventory page rendered: its query and its rows
  issued,     \* history: the slugs given to the listings inserted so far
  schema      \* the tables data.db holds: "none", "seed" or "full"

vars ==
  <<cars, images, seqCars, seqImages, uploads, now, reqs, last, view, issued, schema>>

(***************************************************************************)
(* Bounds of the model.                                                    *)
(***************************************************************************)
MaxClock == 1        \* the clock stops advancing here
MaxCars == 2         \* car ids handed out in one run
MaxImages == 2       \* image ids handed out in one run (Spec, QuerySpec)
MsPerSecond == 2     \* clock steps per CURRENT_TIMESTAMP step (scaled)

Slots == {"r1", "r2"}

(***************************************************************************)
(* Characters.                                                             *)
(***************************************************************************)
UpperChars == <<"A","B","C","D","E","F","G","H","I","J","K","L","M",
                "N","O","P","Q","R","S","T","U","V","W","X","Y","Z">>
LowerChars == <<"a","b","c","d","e","f","g","h","i","j","k","l","m",
                "n","o","p","q","r","s","t","u","v","w","x","y","z">>
DigitChars == <<"0","1","2","3","4","5","6","7","8","9">>

Range(f) == {f[x] : x \in DOMAIN f}
Min(a, b) == IF a < b THEN a ELSE b

IsUpper(c) == c \in Range(UpperChars)
IsLower(c) == c \in Range(LowerChars)
IsDigit(c) == c \in Range(DigitChars)
IsAlnum(c) == IsUpper(c) \/ IsLower(c) \/ IsDigit(c)

\* String.prototype.toLowerCase, one character
LowerChar(c) ==
  IF IsUpper(c)
    THEN LowerChars[CHOOSE k \in DOMAIN UpperChars : UpperChars[k] = c]
    ELSE c

ToLowerCase(s) == [k \in DOMAIN s |-> LowerChar(s[k])]

\* the decimal text of a number, as `${n}` writes it
RECURSIVE NumText(_)
NumText(n) ==
  IF n < 10 THEN <<DigitChars[n + 1]>>
  ELSE NumText(n \div 10) \o <<DigitChars[(n % 10) + 1]>>

(***************************************************************************)
(* Texts.                                                                  *)
(***************************************************************************)
\* String.prototype.trim, for the one whitespace character of the model
RECURSIVE TrimLeft(_)
TrimLeft(s) ==
  IF s # <<>> /\ Head(s) = " " THEN TrimLeft(Tail(s)) ELSE s

RECURSIVE TrimRight(_)
TrimRight(s) ==
  IF s # <<>> /\ s[Len(s)] = " " THEN TrimRight(SubSeq(s, 1, Len(s) - 1)) ELSE s

Trim(s) == TrimRight(TrimLeft(s))

\* s.replace(/\s+/g, '-'): every maximal run of whitespace becomes one "-"
RECURSIVE CollapseSpaces(_)
CollapseSpaces(s) ==
  IF s = <<>> THEN <<>>
  ELSE IF Head(s) = " "
    THEN IF Len(s) > 1 /\ s[2] = " "
           THEN CollapseSpaces(Tail(s))
           ELSE <<"-">> \o CollapseSpaces(Tail(s))
  ELSE <<Head(s)>> \o CollapseSpaces(Tail(s))

(***************************************************************************)
(* Slugs.  server.js calls the npm package slugify with                    *)
(* {lower:true, strict:true}: the replacement character "-" is read as a   *)
(* space, strict mode deletes every character outside [A-Za-z0-9\s], the   *)
(* text is trimmed, each run of whitespace becomes one "-", and the result *)
(* is lower-cased.                                                         *)
(***************************************************************************)
IsStrict(c) == IsAlnum(c) \/ c = " "
DashToSpace(s) == [k \in DOMAIN s |-> IF s[k] = "-" THEN " " ELSE s[k]]

slugify(s) ==
  ToLowerCase(CollapseSpaces(Trim(SelectSeq(DashToSpace(s), IsStrict))))

\* `${title}-${year}-${Date.now()}`
SlugSource(title, year, t) ==
  title \o <<"-">> \o NumText(year) \o <<"-">> \o NumText(t)

MakeSlug(title, year, t) == slugify(SlugSource(title, year, t))

(***************************************************************************)
(* Stored file names: `${Date.now()}-${file.name.replace(/[^..]/g,'_')}`.  *)
(* The decimal clock value holds no "-", so the name is kept as the pair   *)
(* <<clock value, filtered name>>: two names are equal exactly when the    *)
(* pairs are.                                                              *)
(***************************************************************************)
IsSafeChar(c) == IsAlnum(c) \/ c \in {".", "_", "-"}
SafeChars(name) == [k \in DOMAIN name |-> IF IsSafeChar(name[k]) THEN name[k] ELSE "_"]
SafeName(name, t) == <<t, SafeChars(name)>>

(***************************************************************************)
(* The schema (db.exec at start-up).  better-sqlite3 opens every           *)
(* connection with foreign-key enforcement on, so REFERENCES cars(id)      *)
(* ON DELETE CASCADE is enforced on insert and on delete.                  *)
(***************************************************************************)
Cities == {"Ciudad de Mexico", "Estado de Mexico"}
RepuveStatuses == {"Limpio", "Con reporte", "No verificado"}
InsuranceStatuses == {"Normal", "Perdida total", "Rescatado", "Aseguradora"}
TitleTypes == {"Factura original", "Refacturado", "Aseguradora"}

\* the handler without its city check: every city goes on to the INSERT
CityAny(city) == TRUE

\* ['Ciudad de Mexico','Estado de Mexico'].includes(city)
CityValid(city) == city \in Cities

\* CHECK constraints of table cars
CarsCheck(b) ==
  /\ b.city \in Cities
  /\ b.repuve_status \in RepuveStatuses
  /\ b.insurance_status \in InsuranceStatuses
  /\ b.title_type \in TitleTypes

\* slug TEXT UNIQUE NOT NULL
SlugUnique(slug) == \A c \in cars : c.slug # slug

CarIds == {c.id : c \in cars}
CarById(id) == CHOOSE c \in cars : c.id = id

\* the column without REFERENCES (foreign keys not enforced)
ForeignKeyOff(carId) == TRUE

\* car_id INTEGER NOT NULL REFERENCES cars(id)
ForeignKeyOk(carId) == carId \in CarIds

\* the reference without ON DELETE CASCADE
NoCascade(id) == images

\* ... ON DELETE CASCADE: the image rows a DELETE of car `id` leaves
ImagesAfterDelete(id) == {p \in images : p.car_id # id}

\* id INTEGER PRIMARY KEY AUTOINCREMENT
NewCarId == seqCars + 1

\* the key without AUTOINCREMENT: one more than the largest rowid in the table
RowidAfterMax ==
  IF images = {} THEN 1
  ELSE (CHOOSE p \in images : \A o \in images : p.id >= o.id).id + 1

NewImageId == seqImages + 1

\* created_at DATETIME DEFAULT CURRENT_TIMESTAMP: the clock, in whole seconds
Timestamp(t) == t \div MsPerSecond
CurrentTimestamp == Timestamp(now)

\* the row INSERT INTO cars writes at timestamp ts; is_sold takes its default 0
NewCar(id, b, slug, ts) ==
  [id |-> id, title |-> b.title, price |-> b.price, year |-> b.year,
   city |-> b.city, description |-> b.description,
   repuve_status |-> b.repuve_status, insurance_status |-> b.insurance_status,
   title_type |-> b.title_type, slug |-> slug, is_sold |-> 0,
   created_at |-> ts]

\* the UPDATE that also sets slug and created_at anew, as the INSERT does
UpdatedCarAnew(c, b) ==
  [NewCar(c.id, b, MakeSlug(b.title, b.year, now), CurrentTimestamp)
     EXCEPT !.is_sold = IF b.is_sold THEN 1 ELSE 0]

\* the row UPDATE cars SET ... WHERE id=? leaves: id, slug, created_at stay
UpdatedCar(c, b) ==
  [c EXCEPT !.title = b.title, !.price = b.price, !.year = b.year,
            !.city = b.city, !.description = b.description,
            !.repuve_status = b.repuve_status,
            !.insurance_status = b.insurance_status,
            !.title_type = b.title_type,
            !.is_sold = IF b.is_sold THEN 1 ELSE 0]

(***************************************************************************)
(* Requests.  A record of reqs is one async handler: the request it serves *)
(* (op, id, files), where it stands (pc, i, safe) and the image ids it has *)
(* inserted (rows).  When a handler answers, the connection is free again  *)
(* and `last` holds the status it answered with.                           *)
(***************************************************************************)
MaxFotos == 10       \* files.slice(0,10)

NoFile == <<>>

IdleReq ==
  [op |-> "none", pc |-> "idle", id |-> 0, files |-> <<>>, i |-> 0,
   safe |-> NoFile, rows |-> <<>>]

\* the loop without the slice: `for(const file of files)`
AcceptedAll(files) == files

\* files.slice(0,10)
Accepted(files) == SubSeq(files, 1, Min(Len(files), MaxFotos))

\* res.redirect (302) / res.status(400 or 500).send: the handler ends
Respond(s, status) ==
  /\ reqs' = [reqs EXCEPT ![s] = IdleReq]
  /\ last' = status

\* `for(const file of files.slice(0,10))`, turn k, up to `await file.mv`: the
\* name is built from the clock as it reads now and the write starts; after
\* the last turn, res.redirect('/admin')
Photos(s, r, k) ==
  IF k <= Len(Accepted(r.files))
    THEN /\ reqs' = [reqs EXCEPT ![s] =
                       [r EXCEPT !.pc = "mv", !.i = k, !.safe = SafeName(r.files[k], now)]]
         /\ UNCHANGED last
    ELSE Respond(s, 302)

(***************************************************************************)
(* POST /admin/nuevo, up to its first await (or to its response).          *)
(***************************************************************************)
Nuevo(s, body, fl) ==
  /\ reqs[s].pc = "idle"
  /\ LET r == [IdleReq EXCEPT !.op = "nuevo", !.files = fl]
         slug == MakeSlug(body.title, body.year, now)
     IN IF ~CityValid(body.city)
          THEN /\ Respond(s, 400)
               /\ UNCHANGED <<cars, seqCars, issued>>
        ELSE IF ~CarsCheck(body)
          THEN /\ Respond(s, 500)
               /\ UNCHANGED <<cars, seqCars, issued>>
        ELSE IF ~SlugUnique(slug)
          THEN /\ Respond(s, 500)
               /\ UNCHANGED <<cars, seqCars, issued>>
        ELSE /\ cars' = cars \cup {NewCar(NewCarId, body, slug, CurrentTimestamp)}
             /\ seqCars' = NewCarId
             /\ issued' = issued \cup {slug}
             /\ Photos(s, [r EXCEPT !.id = NewCarId], 1)
  /\ UNCHANGED <<images, seqImages, uploads, now, view, schema>>

(***************************************************************************)
(* POST /admin/editar/:id, up to its first await (or to its response).     *)
(* UPDATE ... WHERE id=? changes the row when there is one, and nothing    *)
(* (without an error) when there is none.                                  *)
(***************************************************************************)
Editar(s, id, body, fl) ==
  /\ reqs[s].pc = "idle"
  /\ LET r == [IdleReq EXCEPT !.op = "editar", !.id = id, !.files = fl]
     IN IF ~CityValid(body.city)
          THEN /\ Respond(s, 400)
               /\ UNCHANGED cars
        ELSE IF id \in CarIds /\ ~CarsCheck(body)
          THEN /\ Respond(s, 500)
               /\ UNCHANGED cars
        ELSE /\ cars' = {IF c.id = id THEN UpdatedCar(c, body) ELSE c : c \in cars}
             /\ Photos(s, r, 1)
  /\ UNCHANGED <<images, seqImages, seqCars, uploads, now, view, issued, schema>>

(***************************************************************************)
(* The handler resumes after `await file.mv(savePath)`.  ok: the write     *)
(* succeeded (the file is stored) or threw (the catch answers 500).  Then  *)
(* run('INSERT INTO images (car_id,filename) VALUES (?,?)'), which the     *)
(* foreign key rejects when the car row is gone.                           *)
(***************************************************************************)
MvDone(s, ok) ==
  /\ reqs[s].pc = "mv"
  /\ LET r == reqs[s]
     IN IF ~ok
          THEN /\ Respond(s, 500)
               /\ UNCHANGED <<images, seqImages, uploads>>
        ELSE /\ uploads' = uploads \cup {r.safe}
             /\ IF ~ForeignKeyOk(r.id)
                  THEN /\ Respond(s, 500)
                       /\ UNCHANGED <<images, seqImages>>
                  ELSE /\ images' = images \cup
                            {[id |-> NewImageId, car_id |-> r.id, filename |-> r.safe]}
                       /\ seqImages' = NewImageId
                       /\ Photos(s, [r EXCEPT !.rows = Append(@, NewImageId)], r.i + 1)
  /\ UNCHANGED <<cars, seqCars, now, view, issued, schema>>

(***************************************************************************)
(* POST /admin/eliminar/:id: DELETE FROM cars WHERE id=?, then              *)
(* res.redirect('/admin'); nothing else.                                   *)
(***************************************************************************)
Eliminar(id) ==
  /\ cars' = {c \in cars : c.id # id}
  /\ images' = ImagesAfterDelete(id)
  /\ last' = 302
  /\ UNCHANGED <<seqCars, seqImages, uploads, now, reqs, view, issued, schema>>

(***************************************************************************)
(* POST /admin/eliminar-foto/:imageId.  unlinkOk: fs.unlinkSync removed    *)
(* the file, or threw (swallowed by the empty catch).  With or without a   *)
(* row, the handler ends with res.redirect('back').                        *)
(***************************************************************************)
EliminarFoto(imageId, unlinkOk) ==
  /\ IF \E p \in images : p.id = imageId
       THEN LET img == CHOOSE p \in images : p.id = imageId
            IN /\ uploads' = IF unlinkOk THEN uploads \ {img.filename} ELSE uploads
               /\ images' = images \ {img}
       ELSE UNCHANGED <<uploads, images>>
  /\ last' = 302
  /\ UNCHANGED <<cars, seqCars, seqImages, now, reqs, view, issued, schema>>

\* time passes: the clock goes on by one step, up to the bound given
Advance(max) ==
  /\ now < max
  /\ now' = now + 1
  /\ UNCHANGED <<cars, images, seqCars, seqImages, uploads, reqs, last, view, issued, schema>>

Tick == Advance(MaxClock)

(***************************************************************************)
(* GET /inventario.  The handler appends one SQL clause per criterion it   *)
(* accepts and binds its parameter; the clauses are kept here as records   *)
(* and evaluated row by row as SQLite evaluates them.                      *)
(***************************************************************************)
\* SQLite's LIKE: "%" matches any text, "_" any one character, letters
\* match without regard to (ASCII) case
RECURSIVE Like(_, _)
Like(pat, txt) ==
  IF pat = <<>> THEN txt = <<>>
  ELSE IF Head(pat) = "%"
    THEN Like(Tail(pat), txt) \/ (txt # <<>> /\ Like(pat, Tail(txt)))
  ELSE /\ txt # <<>>
       /\ (Head(pat) = "_" \/ LowerChar(Head(pat)) = LowerChar(Head(txt)))
       /\ Like(Tail(pat), Tail(txt))

\* parseInt of a query parameter: the leading decimal digits, NaN without any
NaN == -1
DigitValue(c) == (CHOOSE k \in DOMAIN DigitChars : DigitChars[k] = c) - 1

RECURSIVE ParseDigits(_, _)
ParseDigits(str, acc) ==
  IF str = <<>> \/ ~IsDigit(Head(str)) THEN acc
  ELSE ParseDigits(Tail(str), 10 * acc + DigitValue(Head(str)))

parseInt(str) ==
  IF str = <<>> \/ ~IsDigit(Head(str)) THEN NaN ELSE ParseDigits(str, 0)

\* the clause without the includes test: `if(ciudad){ sql += ' AND c.city=?' }`
CityClauseUnchecked(q) ==
  IF q.ciudad # "" THEN <<[col |-> "city", arg |-> q.ciudad]>> ELSE <<>>

\* if(ciudad && [..].includes(ciudad)){ sql += ' AND c.city=?'; ... }
CityClause(q) ==
  IF q.ciudad # "" /\ CityValid(q.ciudad)
    THEN <<[col |-> "city", arg |-> q.ciudad]>> ELSE <<>>

\* the clauses appended to `WHERE 1=1`, in the order of the ifs
WhereClauses(q) ==
  (IF q.term # <<>>
     THEN <<[col |-> "text", arg |-> <<"%">> \o q.term \o <<"%">>]>> ELSE <<>>)
  \o CityClause(q)
  \o (IF q.min # <<>> THEN <<[col |-> "price>=", arg |-> parseInt(q.min)]>> ELSE <<>>)
  \o (IF q.max # <<>> THEN <<[col |-> "price<=", arg |-> parseInt(q.max)]>> ELSE <<>>)
  \o (IF q.year # <<>> THEN <<[col |-> "year>=", arg |-> parseInt(q.year)]>> ELSE <<>>)
  \o (IF q.repuve # "" /\ q.repuve \in RepuveStatuses
        THEN <<[col |-> "repuve_status", arg |-> q.repuve]>> ELSE <<>>)
  \o (IF q.insurance # "" /\ q.insurance \in InsuranceStatuses
        THEN <<[col |-> "insurance_status", arg |-> q.insurance]>> ELSE <<>>)

\* one clause on one row; a comparison with NaN (bound as NULL) is never true
ClauseHolds(cl, c) ==
  CASE cl.col = "text" -> Like(cl.arg, c.title) \/ Like(cl.arg, c.description)
    [] cl.col = "city" -> c.city = cl.arg
    [] cl.col = "price>=" -> cl.arg # NaN /\ c.price >= cl.arg
    [] cl.col = "price<=" -> cl.arg # NaN /\ c.price <= cl.arg
    [] cl.col = "year>=" -> cl.arg # NaN /\ c.year >= cl.arg
    [] cl.col = "repuve_status" -> c.repuve_status = cl.arg
    [] cl.col = "insurance_status" -> c.insurance_status = cl.arg

\* the rows the SELECT returns, as a set
Inventario(q) ==
  LET w == WhereClauses(q)
  IN {c \in cars : \A k \in DOMAIN w : ClauseHolds(w[k], c)}

\* the subquery with ORDER BY id DESC
CoverNewest(id) ==
  LET mine == {p \in images : p.car_id = id}
  IN IF mine = {} THEN <<>>
     ELSE (CHOOSE p \in mine : \A o \in mine : p.id >= o.id).filename

\* (SELECT filename FROM images WHERE car_id=c.id ORDER BY id ASC LIMIT 1)
NoCover == <<>>
Cover(id) ==
  LET mine == {p \in images : p.car_id = id}
  IN IF mine = {} THEN NoCover
     ELSE (CHOOSE p \in mine : \A o \in mine : p.id <= o.id).filename

\* the SELECT without ORDER BY: the rows in the order of their ids
OrderedByRowid(rows) ==
  {o \in [1..Cardinality(rows) -> rows] :
     \A a, b \in DOMAIN o : a < b => o[a].id < o[b].id}

\* ORDER BY c.created_at DESC: any order of the rows that never puts an older
\* row before a newer one (rows of one second come in either order)
OrderedBy(rows) ==
  {o \in [1..Cardinality(rows) -> rows] :
     /\ \A a, b \in DOMAIN o : a # b => o[a] # o[b]
     /\ \A a, b \in DOMAIN o : a < b => o[a].created_at >= o[b].created_at}

NoQuery ==
  [term |-> <<>>, ciudad |-> "", min |-> <<>>, max |-> <<>>, year |-> <<>>,
   repuve |-> "", insurance |-> ""]

NoView == [asked |-> FALSE, page |-> "none", query |-> NoQuery, rows |-> <<>>]

\* what res.render gets for each row of the SELECT, in its order
PageRows(o) == [k \in DOMAIN o |-> [id |-> o[k].id, cover |-> Cover(o[k].id)]]

GetInventario(q) ==
  /\ \E o \in OrderedBy(Inventario(q)) :
       view' = [asked |-> TRUE, page |-> "inventario", query |-> q, rows |-> PageRows(o)]
  /\ UNCHANGED <<cars, images, seqCars, seqImages, uploads, now, reqs, last, issued, schema>>

\* GET /: ... FROM cars c ORDER BY created_at DESC LIMIT 6
HomeLimit == 6

GetHome ==
  /\ \E o \in OrderedBy(cars) :
       view' = [asked |-> TRUE, page |-> "home", query |-> NoQuery,
                rows |-> PageRows(SubSeq(o, 1, Min(Len(o), HomeLimit)))]
  /\ UNCHANGED <<cars, images, seqCars, seqImages, uploads, now, reqs, last, issued, schema>>

(***************************************************************************)
(* The start: the server has created its tables (db.exec) in an empty      *)
(* database; the upload directory is empty and no request is running.      *)
(***************************************************************************)
Init ==
  /\ cars = {}
  /\ images = {}
  /\ seqCars = 0
  /\ seqImages = 0
  /\ uploads = {}
  /\ now = 0
  /\ reqs = [s \in Slots |-> IdleReq]
  /\ last = 0
  /\ view = NoView
  /\ issued = {}
  /\ schema = "full"

\* image rows the requests in flight may still insert
RECURSIVE Pending(_)
Pending(S) ==
  IF S = {} THEN 0
  ELSE LET s == CHOOSE x \in S : TRUE
           r == reqs[s]
       IN (IF r.pc = "mv" THEN Len(Accepted(r.files)) - Len(r.rows) ELSE 0)
          + Pending(S \ {s})

\* a request is taken by the first free connection (they are alike), while
\* the ids it may use stay within the bounds
FirstFree(s) == reqs[s].pc = "idle" /\ (s = "r2" => reqs["r1"].pc # "idle")

Room(s, fl, maxImages) ==
  /\ FirstFree(s)
  /\ seqCars < MaxCars
  /\ seqImages + Pending(Slots) + Len(Accepted(fl)) <= maxImages

(***************************************************************************)
(* Spec: the admin requests, interleaved.                                  *)
(***************************************************************************)
Mazda ==
  [title |-> <<"M", "3">>, price |-> 2, year |-> 2017,
   city |-> "Ciudad de Mexico", description |-> <<>>,
   repuve_status |-> "Limpio", insurance_status |-> "Normal",
   title_type |-> "Factura original", is_sold |-> FALSE]

Invalida == [Mazda EXCEPT !.city = "Invalid City"]

Bodies == {Mazda, Invalida}

FotoB == <<"a", " ">>
FotoC == <<"a", "_">>
FileLists == { <<>>, <<FotoB>>, <<FotoB, FotoC>> }

Next ==
  \/ \E s \in Slots, b \in Bodies, fl \in FileLists :
       Room(s, fl, MaxImages) /\ Nuevo(s, b, fl)
  \/ \E s \in Slots, id \in 1..MaxCars, b \in Bodies, fl \in FileLists :
       Room(s, fl, MaxImages) /\ Editar(s, id, b, fl)
  \/ \E s \in Slots, ok \in BOOLEAN : MvDone(s, ok)
  \/ \E id \in 1..MaxCars : Eliminar(id)
  \/ \E imageId \in 1..MaxImages, unlinkOk \in BOOLEAN : EliminarFoto(imageId, unlinkOk)
  \/ Tick

Spec == Init /\ [][Next]_vars

(***************************************************************************)
(* CapSpec: one connection sending more files than the cap lets through.   *)
(***************************************************************************)
CapImages == 11      \* image ids handed out in one run (CapSpec)

Once(f) == <<f>>
Twice(f) == <<f, f>>
Files11 == Twice(FotoB) \o Twice(FotoB) \o Twice(FotoB) \o Twice(FotoB)
             \o Twice(FotoB) \o Once(FotoC)
Files12 == Files11 \o Once(FotoC)
CapLists == { <<>>, Files11, Files12 }

CapNext ==
  \/ \E b \in Bodies, fl \in CapLists :
       Room("r1", fl, CapImages) /\ Nuevo("r1", b, fl)
  \/ \E id \in 1..MaxCars, b \in Bodies, fl \in CapLists :
       Room("r1", fl, CapImages) /\ Editar("r1", id, b, fl)
  \/ \E ok \in BOOLEAN : MvDone("r1", ok)
  \/ \E id \in 1..MaxCars : Eliminar(id)
  \/ Tick

CapSpec == Init /\ [][CapNext]_vars

(***************************************************************************)
(* QuerySpec: the inventory page over a stored table.  The table is any    *)
(* set of rows that creates, edits and deletes leave behind: row k was     *)
(* inserted at clock value k (so the slugs differ) and holds any of the    *)
(* bodies below.                                                           *)
(***************************************************************************)
QueryRows == 2       \* car ids handed out before the queries (QuerySpec)

Kia ==
  [title |-> <<"K", "_">>, price |-> 3, year |-> 2016,
   city |-> "Estado de Mexico", description |-> <<"m">>,
   repuve_status |-> "No verificado", insurance_status |-> "Rescatado",
   title_type |-> "Refacturado", is_sold |-> TRUE]
Vocho == [Mazda EXCEPT !.title = <<"V">>, !.price = 1, !.year = 2016,
                       !.repuve_status = "Con reporte"]
QueryBodies == {Mazda, Kia, Vocho}

\* the row of car k after INSERT (at clock value k) and UPDATE with body b
StoredCar(k, b) ==
  UpdatedCar(NewCar(k, b, MakeSlug(b.title, b.year, k), Timestamp(k)), b)

QueryTables ==
  UNION { { {StoredCar(k, f[k]) : k \in ids} : f \in [ids -> QueryBodies] } :
          ids \in SUBSET (1..QueryRows) }

QueryInit ==
  /\ cars \in QueryTables
  /\ images = {}
  /\ seqCars = QueryRows
  /\ seqImages = 0
  /\ uploads = {}
  /\ now = QueryRows
  /\ reqs = [s \in Slots |-> IdleReq]
  /\ last = 302
  /\ view = NoView
  /\ issued = {MakeSlug(b.title, b.year, k) : b \in QueryBodies, k \in 1..QueryRows}
  /\ schema = "full"

Y2016 == <<"2", "0", "1", "6">>
Queries ==
  [term : {<<>>, <<"m">>, <<"_">>},
   ciudad : {"", "Ciudad de Mexico", "Puebla"},
   min : {<<>>, <<"2">>},
   max : {<<>>, <<"2">>},
   year : {<<>>, Y2016},
   repuve : {"", "Limpio"},
   insurance : {"", "Rescatado"}]

\* res.render has sent the page
Rendered ==
  /\ view.asked
  /\ view' = NoView
  /\ UNCHANGED <<cars, images, seqCars, seqImages, uploads, now, reqs, last, issued, schema>>

\* one page at a time: the handler is synchronous
QueryNext ==
  \/ \E q \in Queries : ~view.asked /\ GetInventario(q)
  \/ Rendered

QuerySpec == QueryInit /\ [][QueryNext]_vars

(***************************************************************************)
(* The seed scripts.  Each runs from its first line to its last, or to the *)
(* statement that throws, against the tables it finds in data.db: none,    *)
(* those of seed.js ("seed": cars(id,title,price,year,mileage,city,slug)   *)
(* with a nullable slug, images(id,car_id,url,...)) or those of server.js  *)
(* and main-seed.js ("full").  CREATE TABLE IF NOT EXISTS keeps the tables *)
(* that are there.  A column a table lacks reads NULL.                     *)
(***************************************************************************)
NullText == <<"NULL">>
NullEnum == "NULL"
NullInt == NaN

SeedTitle ==
  <<"M", "a", "z", "d", "a", " ", "3", " ", "i", " ", "T", "o",
    "u", "r", "i", "n", "g">>

\* s.toLowerCase().replace(/[^a-z0-9]+/g,'-').replace(/(^-|-$)/g,'')
IsSlugChar(c) == IsLower(c) \/ IsDigit(c)

RECURSIVE SkipRun(_)
SkipRun(s) ==
  IF s = <<>> \/ IsSlugChar(Head(s)) THEN s ELSE SkipRun(Tail(s))

RECURSIVE DashRuns(_)
DashRuns(s) ==
  IF s = <<>> THEN <<>>
  ELSE IF IsSlugChar(Head(s)) THEN <<Head(s)>> \o DashRuns(Tail(s))
  ELSE <<"-">> \o DashRuns(SkipRun(s))

StripDashes(s) ==
  LET a == IF s # <<>> /\ Head(s) = "-" THEN Tail(s) ELSE s
  IN IF a # <<>> /\ a[Len(a)] = "-" THEN SubSeq(a, 1, Len(a) - 1) ELSE a

slugifyRegex(s) == StripDashes(DashRuns(ToLowerCase(s)))

\* seed.js: slugify(carTitle), where slugify appends '-' + Date.now()
SeedSlug(t) == slugifyRegex(SeedTitle) \o <<"-">> \o NumText(t)
\* main-seed.js: slugify(carTitle + '-' + Date.now())
MainSeedSlug(t) == slugifyRegex(SeedTitle \o <<"-">> \o NumText(t))

SeedDescription ==
  <<"E", "j", "e", "m", "p", "l", "o", " ", "d", "e", " ", "a",
    "u", "t", "o", " ", "e", "n", " ", "i", "n", "v", "e", "n",
    "t", "a", "r", "i", "o", " ", "i", "n", "i", "c", "i", "a",
    "l">>
FinalDescription ==
  <<"M", "u", "y", " ", "c", "u", "i", "d", "a", "d", "o", ",",
    " ", "s", "e", "r", "v", "i", "c", "i", "o", "s", " ", "a",
    "l", " ", "d", "í", "a">>

\* the column the INSERT of the first script names and the seed tables lack
HasDescription == schema = "full"

\* the slug column under the tables assumed to be NULLable
SlugNullable == FALSE

\* slug TEXT UNIQUE NOT NULL (server.js, main-seed.js) / slug TEXT UNIQUE (seed.js)
SlugNotNull == schema = "full"

\* the tables after CREATE TABLE IF NOT EXISTS of the kind given
Created(kind) == IF schema = "none" THEN kind ELSE schema

\* insert.run('Mazda 3 i Touring', 158000, 2017, 78500, 'Ciudad de Mexico', 'Único dueño')
SeedRowSinSlug(id) ==
  [id |-> id, title |-> SeedTitle, price |-> 158000, year |-> 2017,
   city |-> "Ciudad de Mexico", description |-> <<"Ú", "n", "i", "c", "o", " ", "d", "u", "e", "ñ", "o">>,
   repuve_status |-> "No verificado", insurance_status |-> "Normal",
   title_type |-> "Factura original", slug |-> NullText, is_sold |-> 0,
   created_at |-> CurrentTimestamp]

\* insertCar.run(carTitle, 158000, 2017, 78500, 'Ciudad de México', carSlug)
SeedRow(id) ==
  [id |-> id, title |-> SeedTitle, price |-> 158000, year |-> 2017,
   city |-> "Ciudad de México", description |-> NullText,
   repuve_status |-> NullEnum, insurance_status |-> NullEnum,
   title_type |-> NullEnum, slug |-> SeedSlug(now), is_sold |-> NullInt,
   created_at |-> NullInt]

\* insertCar.run(carTitle, 158000, 2017, 78500, 'Ciudad de Mexico', ..., carSlug, 0)
MainSeedRow(id) ==
  [id |-> id, title |-> SeedTitle, price |-> 158000, year |-> 2017,
   city |-> "Ciudad de Mexico", description |-> SeedDescription,
   repuve_status |-> "Limpio", insurance_status |-> "Normal",
   title_type |-> "Factura original", slug |-> MainSeedSlug(now), is_sold |-> 0,
   created_at |-> CurrentTimestamp]

\* the three insertImg.run(carId, ...) of a script
SeedImages(carId, names) ==
  {[id |-> seqImages + k, car_id |-> carId, filename |-> names[k]] : k \in 1..3}

SeedUrls == <<"/images/mazda3/1.jpg", "/images/mazda3/2.jpg", "/images/mazda3/3.jpg">>
FinalNames == <<"mazda3/1.jpg", "mazda3/2.jpg", "mazda3/3.jpg">>

\* one car row and its three image rows go into the (emptied) tables
SeedInserts(row, names) ==
  /\ cars' = {row}
  /\ seqCars' = NewCarId
  /\ images' = SeedImages(NewCarId, names)
  /\ seqImages' = seqImages + 3

\* DELETE FROM images; DELETE FROM cars; and then a statement throws
SeedEmpties ==
  /\ cars' = {}
  /\ images' = {}
  /\ UNCHANGED <<seqCars, seqImages, issued>>

(***************************************************************************)
(* server.js starts: db.exec creates its tables unless data.db has some.   *)
(***************************************************************************)
ServerStart ==
  /\ schema' = Created("full")
  /\ UNCHANGED <<cars, images, seqCars, seqImages, uploads, now, reqs, last, view, issued>>

(***************************************************************************)
(* seed.js, first script: no CREATE TABLE; the INSERT names description    *)
(* and no slug.  Without tables the first db.exec throws; without the      *)
(* description column db.prepare throws; with NOT NULL on slug             *)
(* insert.run throws.                                                      *)
(***************************************************************************)
SeedSinSlug ==
  /\ IF schema = "none"
       THEN UNCHANGED <<cars, images, seqCars, seqImages, issued>>
     ELSE IF ~HasDescription \/ SlugNotNull
       THEN SeedEmpties
     ELSE /\ cars' = {SeedRowSinSlug(NewCarId)}
          /\ seqCars' = NewCarId
          /\ images' = {}
          /\ UNCHANGED <<seqImages, issued>>
  /\ UNCHANGED <<uploads, now, reqs, last, view, schema>>

(***************************************************************************)
(* seed.js, second script (and part_000): creates the "seed" tables,       *)
(* empties them, prepares both INSERTs (the one into images names url)     *)
(* and inserts one car with its slug and three images.                     *)
(***************************************************************************)
SeedConSlug ==
  /\ schema' = Created("seed")
  /\ IF schema' = "seed"
       THEN /\ SeedInserts(SeedRow(NewCarId), SeedUrls)
            /\ issued' = issued \cup {SeedSlug(now)}
       ELSE SeedEmpties
  /\ UNCHANGED <<uploads, now, reqs, last, view>>

(***************************************************************************)
(* main-seed.js: creates the "full" tables and, when cars is empty,        *)
(* inserts one car with its slug and three images.                         *)
(***************************************************************************)
MainSeed ==
  /\ schema' = Created("full")
  /\ IF cars = {} /\ schema' = "full"
       THEN /\ SeedInserts(MainSeedRow(NewCarId), SeedUrls)
            /\ issued' = issued \cup {MainSeedSlug(now)}
       ELSE UNCHANGED <<cars, images, seqCars, seqImages, issued>>
  /\ UNCHANGED <<uploads, now, reqs, last, view>>

(***************************************************************************)
(* part_001: creates the "full" tables, empties them and inserts one car   *)
(* with its slug and three images.                                         *)
(***************************************************************************)
SeedFinal ==
  /\ schema' = Created("full")
  /\ IF schema' = "full"
       THEN /\ SeedInserts([MainSeedRow(NewCarId) EXCEPT !.description = FinalDescription],
                           FinalNames)
            /\ issued' = issued \cup {MainSeedSlug(now)}
       ELSE SeedEmpties
  /\ UNCHANGED <<uploads, now, reqs, last, view>>

(***************************************************************************)
(* SeedSpec: the scripts and the create and delete routes on one data.db.  *)
(***************************************************************************)
SeedInit ==
  /\ cars = {}
  /\ images = {}
  /\ seqCars = 0
  /\ seqImages = 0
  /\ uploads = {}
  /\ now = 0
  /\ reqs = [s \in Slots |-> IdleReq]
  /\ last = 0
  /\ view = NoView
  /\ issued = {}
  /\ schema = "none"

SeedNext ==
  \/ ServerStart
  \/ SeedSinSlug
  \/ seqCars < MaxCars /\ SeedConSlug
  \/ seqCars < MaxCars /\ MainSeed
  \/ seqCars < MaxCars /\ SeedFinal
  \/ \E b \in Bodies :
       schema = "full" /\ seqCars < MaxCars /\ Nuevo("r1", b, <<>>)
  \/ \E id \in 1..MaxCars : schema # "none" /\ Eliminar(id)
  \/ Tick

SeedSpec == SeedInit /\ [][SeedNext]_vars

(***************************************************************************)
(* PageSpec: the admin requests of one connection, and the home and        *)
(* inventory pages rendered between them.  The clock runs into the next    *)
(* second, so that listings of one second and of two seconds are listed.   *)
(***************************************************************************)
PageClock == 2       \* the clock stops advancing here (PageSpec)

\* a page is rendered in one piece: nothing runs between its SELECT and
\* its res.render
Showing == view.asked

PageNext ==
  \/ \E b \in Bodies, fl \in FileLists :
       ~Showing /\ Room("r1", fl, MaxImages) /\ Nuevo("r1", b, fl)
  \/ \E id \in 1..MaxCars, b \in {Kia, Invalida}, fl \in FileLists :
       ~Showing /\ Room("r1", fl, MaxImages) /\ Editar("r1", id, b, fl)
  \/ \E ok \in BOOLEAN : ~Showing /\ MvDone("r1", ok)
  \/ \E id \in 1..MaxCars : ~Showing /\ Eliminar(id)
  \/ \E imageId \in 1..MaxImages, unlinkOk \in BOOLEAN :
       ~Showing /\ EliminarFoto(imageId, unlinkOk)
  \/ ~Showing /\ Advance(PageClock)
  \/ ~Showing /\ GetInventario(NoQuery)
  \/ ~Showing /\ GetHome
  \/ Rendered

PageSpec == Init /\ [][PageNext]_vars

(***************************************************************************)
(* EditSpec: creates, updates and deletes of one connection, with the      *)
(* clock of PageSpec and no page rendered.                                 *)
(***************************************************************************)
EditNext ==
  \/ \E fl \in FileLists :
       Room("r1", fl, MaxImages) /\ Nuevo("r1", Mazda, fl)
  \/ \E id \in 1..MaxCars, b \in {Kia, Invalida}, fl \in FileLists :
       Room("r1", fl, MaxImages) /\ Editar("r1", id, b, fl)
  \/ \E ok \in BOOLEAN : MvDone("r1", ok)
  \/ \E id \in 1..MaxCars : Eliminar(id)
  \/ Advance(PageClock)

EditSpec == Init /\ [][EditNext]_vars

(***************************************************************************)
(* SlugSpec: creates with titles of every shape, so that the slugs of the  *)
(* handler can be compared with the slugs it is said to make.              *)
(***************************************************************************)
\* part_002: slugify(`${title}-${Date.now()}`)
MakeSlugTitle(title, t) == slugifyRegex(title \o <<"-">> \o NumText(t))

Titles == { <<"M", "3">>, <<"A", " ", "b">>, <<"a", ".", "b">>, <<"!">> }
SlugBodies == {[Mazda EXCEPT !.title = t] : t \in Titles}

SlugNext ==
  \/ \E b \in SlugBodies : seqCars < MaxCars /\ Nuevo("r1", b, <<>>)
  \/ \E id \in 1..MaxCars : Eliminar(id)
  \/ Tick

SlugSpec == Init /\ [][SlugNext]_vars

(***************************************************************************)
(* The properties.                                                         *)
(***************************************************************************)
Idle == \A s \in Slots : reqs[s].pc = "idle"
RowIds == {view.rows[k].id : k \in DOMAIN view.rows}

\* C1: at every moment, under every interleaving of create, update, delete
\* and detachPhoto, the car_id of every image row is the id of a row of cars.
C1_PhotosReferToListings == \A p \in images : p.car_id \in CarIds

\* a file was written and its row refused (no image id was ever handed out)
\* after a listing had been created and deleted
C1_Witness ==
  /\ Idle /\ last = 500
  /\ seqCars >= 1 /\ cars = {}
  /\ uploads # {} /\ seqImages = 0

\* C2: a step that deletes listing id leaves no image row with car_id = id
\* and leaves the image rows of every other listing exactly as they were.
C2_DeleteCascades ==
  [][\A id \in 1..MaxCars :
       (id \in CarIds /\ id \notin CarIds')
         => /\ \A p \in images' : p.car_id # id
            /\ \A p \in images : p.car_id # id => p \in images'
            /\ images' \subseteq images]_vars

\* listing 1 is deleted, both image ids were handed out, and the one image
\* row left belongs to listing 2
C2_Witness ==
  /\ seqCars = 2 /\ CarIds = {2}
  /\ seqImages = 2 /\ Cardinality(images) = 1
  /\ \A p \in images : p.car_id = 2 /\ p.filename \in uploads
  /\ Cardinality(uploads) = 2

\* C3: no two successful creates are ever given the same slug, also when
\* the earlier holder has been deleted: as many slugs have been issued as
\* listings have been inserted.
C3_SlugNeverReused == Cardinality(issued) = seqCars

\* C4: a create whose city is not one of the two cities answers 400 and
\* leaves the listings, the image rows and the stored files as they were.
C4_InvalidCityRejected ==
  [][\A s \in Slots, b \in Bodies, fl \in FileLists :
       (~(b.city \in Cities) /\ Nuevo(s, b, fl))
         => /\ last' = 400
            /\ UNCHANGED <<cars, images, uploads, seqCars, seqImages>>]_vars

\* a request was refused with 400 while listings, image rows and files exist
C4_Witness ==
  /\ last = 400
  /\ cars # {} /\ images # {} /\ uploads # {}

\* C5 (as stated): when the write of the last accepted file of a call with n
\* files succeeds (so every write did), the call has added min(n, 10) image
\* rows for its listing.
C5_CapWhenWritten ==
  [][\A s \in Slots :
       (/\ reqs[s].pc = "mv"
        /\ reqs[s].i = Min(Len(reqs[s].files), MaxFotos)
        /\ MvDone(s, TRUE))
         => /\ Len(reqs[s].rows) + Cardinality(images' \ images)
                 = Min(Len(reqs[s].files), MaxFotos)
            /\ \A p \in images' \ images : p.car_id = reqs[s].id]_vars

\* C5 (amended): when the write of the last accepted file of a call with n
\* files succeeds (so every write did) and the call's listing is stored, the
\* call ends there with the redirect and has added min(n, 10) image rows for
\* its listing; the files past the tenth are passed over without an error.
C5_CapWhileListed ==
  [][\A s \in Slots :
       (/\ reqs[s].pc = "mv"
        /\ reqs[s].i = Min(Len(reqs[s].files), MaxFotos)
        /\ reqs[s].id \in CarIds
        /\ MvDone(s, TRUE))
         => /\ reqs'[s].pc = "idle" /\ last' = 302
            /\ Len(reqs[s].rows) + Cardinality(images' \ images)
                 = Min(Len(reqs[s].files), MaxFotos)
            /\ \A p \in images' \ images : p.car_id = reqs[s].id]_vars

\* a call with more than ten files has ended with the redirect and left
\* exactly ten image rows
C5_Witness ==
  /\ Idle /\ last = 302
  /\ Cardinality(images) = MaxFotos /\ seqImages = MaxFotos

\* C6: the page lists exactly the listings that satisfy every criterion
\* supplied (the term is contained, without regard to case, in the title or
\* the description; the city, registry and insurance values are equal; the
\* price is within min and max), sold or not; without criteria, all.
C6_ExactlyTheMatching ==
  LET q == view.query
      Contains(t, txt) ==
        \E a \in 0..Len(txt) :
          /\ a + Len(t) <= Len(txt)
          /\ ToLowerCase(SubSeq(txt, a + 1, a + Len(t))) = ToLowerCase(t)
      Satisfies(c) ==
        /\ q.term # <<>> => Contains(q.term, c.title) \/ Contains(q.term, c.description)
        /\ q.ciudad # "" => c.city = q.ciudad
        /\ q.min # <<>> => c.price >= parseInt(q.min)
        /\ q.max # <<>> => c.price <= parseInt(q.max)
        /\ q.repuve # "" => c.repuve_status = q.repuve
        /\ q.insurance # "" => c.insurance_status = q.insurance
  IN (/\ view.asked
      /\ q.year = <<>>
      /\ q.ciudad \in Cities \cup {""}
      /\ q.repuve \in RepuveStatuses \cup {""}
      /\ q.insurance \in InsuranceStatuses \cup {""})
       => RowIds = {c.id : c \in {x \in cars : Satisfies(x)}}

\* C7: with the year criterion y, every listing on the page has year = y.
C7_YearIsExact ==
  (view.asked /\ view.query.year # <<>>)
    => \A id \in RowIds : CarById(id).year = parseInt(view.query.year)

\* C8: a city criterion that is not one of the two cities gives the page
\* that the same query without a city criterion gives.
C8_InvalidCityIgnored ==
  (view.asked /\ view.query.ciudad # "" /\ ~(view.query.ciudad \in Cities))
    => RowIds = {c.id : c \in Inventario([view.query EXCEPT !.ciudad = ""])}

\* the page for city "Puebla" lists two listings of different cities
C8_Witness ==
  /\ view.asked /\ view.query.ciudad = "Puebla"
  /\ \E a, b \in RowIds : CarById(a).city # CarById(b).city

\* C9: the image row a call inserts for a file has an id greater than the
\* ids of the rows the call inserted for its earlier files (which it did in
\* their order), whatever ran while the call was suspended.
C9_IdsFollowUploadOrder ==
  [][\A s \in Slots :
       /\ \A p \in images' \ images :
            (reqs[s].pc = "mv" /\ reqs'[s] # reqs[s])
              => /\ p.car_id = reqs[s].id /\ p.filename = reqs[s].safe
                 /\ \A k \in DOMAIN reqs[s].rows : reqs[s].rows[k] < p.id
       /\ reqs'[s].pc = "mv"
            => /\ Len(reqs'[s].rows) = reqs'[s].i - 1
               /\ \A j, k \in DOMAIN reqs'[s].rows :
                    j < k => reqs'[s].rows[j] < reqs'[s].rows[k]]_vars

\* a call waits for the write of its second file; the row of its first file
\* was detached meanwhile and its listing is still stored
C9_Witness ==
  \E s \in Slots :
    /\ reqs[s].pc = "mv" /\ reqs[s].i = 2
    /\ reqs[s].id \in CarIds
    /\ \A p \in images : p.id # reqs[s].rows[1]

\* C10: a step that deletes listing id leaves no stored file that backed one
\* of its image rows.
C10_DeleteRemovesFiles ==
  [][\A id \in 1..MaxCars :
       (id \in CarIds /\ id \notin CarIds')
         => \A p \in images : p.car_id = id => p.filename \notin uploads']_vars

\* C11: detachPhoto for an id that has no image row ends in a not-found
\* outcome (404, not the redirect) and leaves image rows and stored files
\* as they were.
C11_DetachMissingNotFound ==
  [][\A imageId \in 1..MaxImages, unlinkOk \in BOOLEAN :
       ((\A p \in images : p.id # imageId) /\ EliminarFoto(imageId, unlinkOk))
         => /\ last' = 404
            /\ UNCHANGED <<images, uploads>>]_vars

\* C12: when the write of a file fails, the listing and the image rows of
\* the earlier files are kept and the call goes on with the next accepted
\* file, if there is one.
C12_ContinuesAfterFailedWrite ==
  [][\A s \in Slots :
       (/\ reqs[s].pc = "mv"
        /\ reqs[s].i < Len(Accepted(reqs[s].files))
        /\ MvDone(s, FALSE))
         => /\ UNCHANGED <<cars, images>>
            /\ reqs'[s].pc = "mv" /\ reqs'[s].i = reqs[s].i + 1]_vars

\* C13: a create whose slug is taken regenerates it with a fresh
\* disambiguator and retries once: when every other disambiguator gives a
\* free slug, the create inserts its listing and answers no error.
C13_RetriesOnSlugConflict ==
  [][\A s \in Slots, b \in Bodies, fl \in FileLists :
       (/\ b.city \in Cities
        /\ ~SlugUnique(MakeSlug(b.title, b.year, now))
        /\ \A d \in 0..(MaxClock + 1) :
             d # now => SlugUnique(MakeSlug(b.title, b.year, d))
        /\ Nuevo(s, b, fl))
         => /\ seqCars' = seqCars + 1
            /\ last' # 500]_vars

\* C19: no two image rows have the same filename (so detaching one never
\* removes the file of another).
C19_NoSharedFilename ==
  \A p1, p2 \in images : p1.filename = p2.filename => p1.id = p2.id

\* C20: an update of an id that never had a listing row creates no listing
\* row, adds no image row and stores no file.
C20_UpdateOfMissingWritesNothing ==
  [][\A s \in Slots :
       (/\ reqs[s].op = "editar" /\ reqs[s].pc = "mv"
        /\ reqs[s].id > seqCars
        /\ reqs'[s] # reqs[s])
         => UNCHANGED <<cars, images, uploads>>]_vars

\* C16: every row of cars, whichever script or handler wrote it, has a slug
\* that is neither NULL nor empty.
C16_EveryListingHasSlug ==
  \A c \in cars : c.slug # NullText /\ Len(c.slug) > 0

\* a row written by a seed script and a row written by the create handler
\* are stored side by side, each with its three or no image rows
C16_Witness ==
  /\ schema = "full"
  /\ \E c \in cars : c.title = SeedTitle /\ c.slug = MainSeedSlug(0)
  /\ \E c \in cars : c.title = Mazda.title

\* C17: the slug of a new listing is stem + "-" + d, where stem is the
\* lower-cased title with every maximal run of characters outside [a-z0-9]
\* replaced by one "-" and the "-" at either end removed (so "-" + d for a
\* title without letters and digits), and d is what the handler appends:
\* the year and the clock in server.js, the clock in part_002.
C17_SlugIsStemDashD ==
  [][\A c \in cars' :
       (seqCars' = seqCars + 1 /\ c.id = seqCars')
         => LET stem == StripDashes(DashRuns(ToLowerCase(c.title)))
            IN /\ c.slug = stem \o <<"-">> \o NumText(c.year) \o <<"-">> \o NumText(now)
               /\ MakeSlugTitle(c.title, now) = stem \o <<"-">> \o NumText(now)]_vars

\* C14: an update leaves the id, slug and created_at of its listing, every
\* other row of cars and every image row as they were, and creates no row of
\* cars; the steps that follow for its files only add image rows, for its
\* listing.
C14_UpdateFrame ==
  [][/\ \A id \in 1..MaxCars, b \in {Kia, Invalida}, fl \in FileLists :
          Editar("r1", id, b, fl)
            => /\ images' = images
               /\ {c.id : c \in cars'} = CarIds
               /\ \A c \in cars : \E d \in cars' :
                    /\ d.id = c.id /\ d.slug = c.slug /\ d.created_at = c.created_at
                    /\ c.id # id => d = c
     /\ (/\ reqs["r1"].op = "editar" /\ reqs["r1"].pc = "mv"
         /\ reqs'["r1"] # reqs["r1"])
          => /\ cars' = cars
             /\ images \subseteq images'
             /\ \A p \in images' \ images : p.car_id = reqs["r1"].id]_vars

\* listing 1 was created with a photo and then updated with another photo:
\* it has the new title and the sold flag, its first slug and both image
\* rows, next to a listing that was not updated
C14_Witness ==
  /\ Idle /\ Cardinality(cars) = 2
  /\ \E c \in cars :
       /\ c.id = 1 /\ c.title = Kia.title /\ c.is_sold = 1
       /\ c.slug \in {MakeSlug(Mazda.title, Mazda.year, t) : t \in 0..PageClock}
  /\ \E c \in cars : c.id = 2 /\ c.title = Mazda.title
  /\ Cardinality({p \in images : p.car_id = 1}) = 2

\* C15: on the home and inventory pages the cover of a listing is the
\* filename of the image row with the smallest id among the rows the listing
\* has now, and empty when it has none.
C15_CoverIsSmallestId ==
  view.asked =>
    \A k \in DOMAIN view.rows :
      LET mine == {p \in images : p.car_id = view.rows[k].id}
      IN /\ mine = {} => view.rows[k].cover = <<>>
         /\ mine # {} =>
              \E p \in mine : /\ p.filename = view.rows[k].cover
                              /\ \A o \in mine : p.id <= o.id

\* a page lists a listing that has two image rows with different filenames
C15_Witness ==
  /\ view.asked
  /\ \E k \in DOMAIN view.rows : \E p1, p2 \in images :
       /\ p1.car_id = view.rows[k].id /\ p2.car_id = view.rows[k].id
       /\ p1.id < p2.id /\ p1.filename # p2.filename

\* C18 (as stated): of two listings on a page the one created later (the
\* one with the greater id) comes first, also when both were created within
\* one tick of the storage clock.
C18_NewestFirstAlways ==
  view.asked =>
    \A a, b \in DOMAIN view.rows : a < b => view.rows[a].id > view.rows[b].id

\* C18 (amended): of two listings on a page the one created in a later tick
\* of the storage clock comes first; listings of one tick come in any order.
C18_LaterTickFirst ==
  view.asked =>
    \A a, b \in DOMAIN view.rows :
      CarById(view.rows[a].id).created_at > CarById(view.rows[b].id).created_at
        => a < b

\* a page lists two listings created in different ticks of the storage clock
C18_Witness ==
  /\ view.asked /\ Len(view.rows) = 2
  /\ CarById(view.rows[1].id).created_at > CarById(view.rows[2].id).created_at

====
